---------------------------- MODULE Spec2Model ----------------------------
(***************************************************************************)
(* A model of the speech-to-text / sentiment backend:                      *)
(*   src/backend/services/sentiment_analysis.py  SentimentAnalysisService  *)
(*   src/backend/services/speech_to_text.py      SpeechToTextService       *)
(*   src/backend/main.py                         the FastAPI entrypoint    *)
(*   src/backend/lambda_handler.py               the Lambda entrypoint     *)
(*                                                                         *)
(* Numbers: a Python float in [-1,1] is an integer count of 1/Scale, and   *)
(* the inputs are drawn from grids on which every division of the code is  *)
(* exact, so the arithmetic is that of the reals (rounding is not          *)
(* modelled).  Python objects are records; an exception is a record with   *)
(* raised = TRUE.                                                          *)
(***************************************************************************)
EXTENDS Integers, Sequences, FiniteSets, TLC

VARIABLES
    svc,        \* the SentimentAnalysisService object under test (SpecSvc)
    call,       \* the last call made on it, with what the engine was given
    res,        \* what that call returned
    hist,       \* history: engine constructions attempted, how svc was built
    app,        \* main.py: the module's state and its sentiment_service
    fs,         \* main.py: the upload directory, path -> file
    req,        \* main.py: the requests in flight
    g,          \* lambda_handler.py: stt_service, sentiment_service, audio_processor
    lhist,      \* lambda_handler.py: history, engine constructions attempted
    lreq,       \* lambda_handler.py: the requests in flight
    sttSvc      \* the SpeechToTextService object under test (SpecStt)

svcVars == <<svc, call, res, hist>>
mainVars == <<app, fs, req>>
lamVars == <<g, lhist, lreq>>
sttVars == <<sttSvc>>
vars == <<svc, call, res, hist, app, fs, req, g, lhist, lreq, sttSvc>>

-----------------------------------------------------------------------------
(* Bounds *)

\* confidences and scores are multiples of 1/Grain
Grain == 2
\* longest text handed to analyze_sentiment
MaxTextLen == 2
\* change_method calls a run may make
MaxChanges == 1
\* longest stage duration, in clock ticks
MaxDur == 1
\* requests in flight at once
NReq == 2
\* failed constructions of the speech-to-text engine a run may see
MaxLoads == 2
\* most segments in one transcription
MaxSegs == 3

\* the integer that stands for 1.0
Scale == 60 * Grain

Min(a, b) == IF a < b THEN a ELSE b
Max(a, b) == IF a > b THEN a ELSE b
Abs(a) == IF a < 0 THEN -a ELSE a

\* Python's a / n for a scaled float a and an integer n
DivInt(a, n) == a \div n
\* Python's a / b for two scaled floats
DivFloat(a, b) == (a * Scale) \div b

-----------------------------------------------------------------------------
(* Texts: str, with str.strip() *)

Chars == {" ", "a"}
IsSpace(c) == c = " "

Texts == UNION {[1..n -> Chars] : n \in 0..MaxTextLen}

RECURSIVE LStrip(_)
LStrip(s) ==
    IF s = <<>> THEN s
    ELSE IF IsSpace(Head(s)) THEN LStrip(Tail(s)) ELSE s

RECURSIVE RStrip(_)
RStrip(s) ==
    IF s = <<>> THEN s
    ELSE IF IsSpace(s[Len(s)]) THEN RStrip(SubSeq(s, 1, Len(s) - 1)) ELSE s

Strip(s) == RStrip(LStrip(s))

\* Python truthiness of a str
Truthy(s) == s # <<>>

-----------------------------------------------------------------------------
(* sentiment_analysis.py *)

SentimentLabels == {"positive", "negative", "neutral"}
KnownMethods == {"transformers", "vader", "textblob"}
\* method strings a caller may pass: the three documented ones and another
Methods == KnownMethods \cup {"spacy"}

\* what self.analyzer can hold: None, the transformers pipeline, a
\* SentimentIntensityAnalyzer, or the string "textblob"
Analyzers == {"None", "pipeline", "vader", "textblob"}

\* the fixed result of the two places that build it (lines 65-74, 94-104)
NeutralScores == [k \in SentimentLabels |-> IF k = "neutral" THEN Scale ELSE 0]

\* label_map of _analyze_with_transformers
label_map ==
    [l \in {"LABEL_0", "LABEL_1", "LABEL_2", "NEGATIVE", "NEUTRAL", "POSITIVE"} |->
        CASE l = "LABEL_0" -> "negative"
          [] l = "LABEL_1" -> "neutral"
          [] l = "LABEL_2" -> "positive"
          [] l = "NEGATIVE" -> "negative"
          [] l = "NEUTRAL" -> "neutral"
          [] l = "POSITIVE" -> "positive"]

\* labels a sequence-classification pipeline may hand back: the keys of
\* label_map, the lower-case names, and names of other label vocabularies
NativeLabels ==
    DOMAIN label_map \cup {"negative", "neutral", "positive", "Positive"}
        \cup {"LABEL_3", "MIXED"}

\* str.lower() on those labels
Lower(l) ==
    CASE l = "NEGATIVE" -> "negative"
      [] l = "NEUTRAL" -> "neutral"
      [] l = "POSITIVE" -> "positive"
      [] l = "Positive" -> "positive"
      [] l = "LABEL_0" -> "label_0"
      [] l = "LABEL_1" -> "label_1"
      [] l = "LABEL_2" -> "label_2"
      [] l = "LABEL_3" -> "label_3"
      [] l = "MIXED" -> "mixed"
      [] OTHER -> l

\* dict.get(key, default)
DictGet(d, k, default) == IF k \in DOMAIN d THEN d[k] ELSE default

\* a raised exception, as the value of a call
Raised == [raised |-> TRUE]

(* What an engine hands back when it is invoked. *)
NoOut ==
    [raises |-> FALSE, label |-> "", score |-> 0,
     pos |-> 0, neg |-> 0, neu |-> 0, compound |-> 0, polarity |-> 0]

Confidences == {k * 60 : k \in 0..Grain}
Durations == 0..MaxDur

\* self.analyzer(text)[0]: {"label": ..., "score": ...}, or an exception
PipelineOutputs ==
    {[NoOut EXCEPT !.raises = TRUE]} \cup
    {[NoOut EXCEPT !.label = l, !.score = c] : l \in NativeLabels, c \in Confidences}

\* the thresholds of _analyze_with_vader and _analyze_with_textblob
VaderThreshold == Scale \div 20
PolarityThreshold == Scale \div 10

\* self.analyzer.polarity_scores(text): pos, neg, neu and compound
VaderTriples ==
    {<<42 * Grain, 0, 18 * Grain>>, <<0, 30 * Grain, 30 * Grain>>,
     <<12 * Grain, 12 * Grain, 36 * Grain>>}
VaderCompounds ==
    {-Scale, -VaderThreshold - 1, -VaderThreshold, -VaderThreshold + 1, 0,
     VaderThreshold - 1, VaderThreshold, VaderThreshold + 1, 36 * Grain, Scale}
VaderOutputs ==
    {[NoOut EXCEPT !.raises = TRUE]} \cup
    {[NoOut EXCEPT !.pos = t[1], !.neg = t[2], !.neu = t[3], !.compound = c] :
        t \in VaderTriples, c \in VaderCompounds}

\* TextBlob(text).sentiment.polarity
Polarities ==
    {-Scale, -PolarityThreshold - 1, -PolarityThreshold, 0,
     PolarityThreshold, PolarityThreshold + 1, Scale}
TextBlobOutputs ==
    {[NoOut EXCEPT !.raises = TRUE]} \cup
    {[NoOut EXCEPT !.polarity = p] : p \in Polarities}

EngineOutputs(engine) ==
    CASE engine = "pipeline" -> PipelineOutputs
      [] engine = "vader" -> VaderOutputs
      [] engine = "textblob" -> TextBlobOutputs
      [] OTHER -> {NoOut}

\* _load_analyzer whose fallback builds the VADER analyzer and leaves
\* self.method at "transformers"
_load_analyzer_keeps_method(method, analyzer, trOk, vdOk) ==
    CASE method = "transformers" ->
            IF trOk
            THEN [raised |-> FALSE, method |-> method, analyzer |-> "pipeline",
                  tried |-> {"pipeline"}]
            ELSE IF vdOk
            THEN [raised |-> FALSE, method |-> method, analyzer |-> "vader",
                  tried |-> {"pipeline", "vader"}]
            ELSE [raised |-> TRUE, method |-> method, analyzer |-> analyzer,
                  tried |-> {"pipeline", "vader"}]
      [] method = "vader" ->
            [raised |-> FALSE, method |-> method,
             analyzer |-> IF vdOk THEN "vader" ELSE analyzer, tried |-> {"vader"}]
      [] method = "textblob" ->
            [raised |-> FALSE, method |-> method, analyzer |-> "textblob",
             tried |-> {}]
      [] OTHER ->
            [raised |-> FALSE, method |-> method, analyzer |-> analyzer,
             tried |-> {}]

\* _load_analyzer on an object with the given method and analyzer; trOk and
\* vdOk say whether pipeline(...) and SentimentIntensityAnalyzer() succeed.
\* tried: the engine constructors called.
_load_analyzer(method, analyzer, trOk, vdOk) ==
    CASE method = "transformers" ->
            IF trOk
            THEN [raised |-> FALSE, method |-> method, analyzer |-> "pipeline",
                  tried |-> {"pipeline"}]
            \* except: self.method == "transformers": fall back to VADER
            ELSE IF vdOk
            THEN [raised |-> FALSE, method |-> "vader", analyzer |-> "vader",
                  tried |-> {"pipeline", "vader"}]
            \* the fallback's constructor raises inside the handler
            ELSE [raised |-> TRUE, method |-> "vader", analyzer |-> analyzer,
                  tried |-> {"pipeline", "vader"}]
      [] method = "vader" ->
            IF vdOk
            THEN [raised |-> FALSE, method |-> method, analyzer |-> "vader",
                  tried |-> {"vader"}]
            \* except: printed, not re-raised, nothing assigned
            ELSE [raised |-> FALSE, method |-> method, analyzer |-> analyzer,
                  tried |-> {"vader"}]
      [] method = "textblob" ->
            [raised |-> FALSE, method |-> method, analyzer |-> "textblob",
             tried |-> {}]
      [] OTHER ->
            [raised |-> FALSE, method |-> method, analyzer |-> analyzer,
             tried |-> {}]

\* SentimentAnalysisService(method)
SentimentAnalysisService(method, trOk, vdOk) ==
    _load_analyzer(method, "None", trOk, vdOk)

\* change_method(method) on self
change_method(self, method, trOk, vdOk) ==
    IF method # self.method
    THEN _load_analyzer(method, self.analyzer, trOk, vdOk)
    ELSE [raised |-> FALSE, method |-> self.method, analyzer |-> self.analyzer,
          tried |-> {}]

\* get_analyzer_info(): method and analyzer_loaded
get_analyzer_info(self) ==
    [method |-> self.method, analyzer_loaded |-> self.analyzer # "None"]

\* _analyze_with_transformers that divides the remaining mass by len(scores)
_analyze_with_transformers_len_scores(analyzer, out) ==
    IF analyzer # "pipeline" \/ out.raises THEN Raised
    ELSE LET sentiment == DictGet(label_map, out.label, Lower(out.label))
             confidence == out.score
             keys == SentimentLabels \cup {sentiment}
             remaining == Scale - confidence
         IN  [raised |-> FALSE, sentiment |-> sentiment, confidence |-> confidence,
              scores |-> [k \in keys |->
                            IF k = sentiment THEN confidence
                            ELSE DivInt(remaining, Cardinality(keys))]]

_analyze_with_transformers(analyzer, out) ==
    \* self.analyzer(text): only a pipeline is callable
    IF analyzer # "pipeline" \/ out.raises THEN Raised
    ELSE LET sentiment == DictGet(label_map, out.label, Lower(out.label))
             confidence == out.score
             keys == SentimentLabels \cup {sentiment}
             remaining == Scale - confidence
             other_sentiments == keys \ {sentiment}
         IN  [raised |-> FALSE, sentiment |-> sentiment, confidence |-> confidence,
              scores |-> [k \in keys |->
                            IF k = sentiment THEN confidence
                            ELSE DivInt(remaining, Cardinality(other_sentiments))]]

\* _analyze_with_vader whose comparisons with the thresholds are strict
_analyze_with_vader_strict(analyzer, out) ==
    IF analyzer # "vader" \/ out.raises THEN Raised
    ELSE LET sentiment ==
                 IF out.compound > VaderThreshold THEN "positive"
                 ELSE IF out.compound < -VaderThreshold THEN "negative"
                 ELSE "neutral"
             confidence ==
                 IF out.compound > VaderThreshold THEN out.pos
                 ELSE IF out.compound < -VaderThreshold THEN out.neg
                 ELSE out.neu
         IN  [raised |-> FALSE, sentiment |-> sentiment, confidence |-> confidence,
              scores |-> [k \in SentimentLabels |->
                            CASE k = "positive" -> out.pos
                              [] k = "negative" -> out.neg
                              [] k = "neutral" -> out.neu]]

_analyze_with_vader(analyzer, out) ==
    \* self.analyzer.polarity_scores: only the VADER object has it
    IF analyzer # "vader" \/ out.raises THEN Raised
    ELSE LET sentiment ==
                 IF out.compound >= VaderThreshold THEN "positive"
                 ELSE IF out.compound <= -VaderThreshold THEN "negative"
                 ELSE "neutral"
             confidence ==
                 IF out.compound >= VaderThreshold THEN out.pos
                 ELSE IF out.compound <= -VaderThreshold THEN out.neg
                 ELSE out.neu
         IN  [raised |-> FALSE, sentiment |-> sentiment, confidence |-> confidence,
              scores |-> [k \in SentimentLabels |->
                            CASE k = "positive" -> out.pos
                              [] k = "negative" -> out.neg
                              [] k = "neutral" -> out.neu]]

\* _analyze_with_textblob whose comparisons with the thresholds are inclusive
_analyze_with_textblob_inclusive(out) ==
    IF out.raises THEN Raised
    ELSE LET polarity == out.polarity
             sentiment ==
                 IF polarity >= PolarityThreshold THEN "positive"
                 ELSE IF polarity <= -PolarityThreshold THEN "negative"
                 ELSE "neutral"
             confidence ==
                 IF polarity >= PolarityThreshold THEN Min(Scale, polarity)
                 ELSE IF polarity <= -PolarityThreshold THEN Min(Scale, Abs(polarity))
                 ELSE Scale - Abs(polarity)
             pos_score == Max(0, polarity)
             neg_score == Max(0, -polarity)
             neu_score == Scale - Abs(polarity)
             total == pos_score + neg_score + neu_score
             norm(x) == IF total > 0 THEN DivFloat(x, total) ELSE x
         IN  [raised |-> FALSE, sentiment |-> sentiment, confidence |-> confidence,
              scores |-> [k \in SentimentLabels |->
                            CASE k = "positive" -> norm(pos_score)
                              [] k = "negative" -> norm(neg_score)
                              [] k = "neutral" -> norm(neu_score)]]

_analyze_with_textblob(out) ==
    IF out.raises THEN Raised
    ELSE LET polarity == out.polarity
             sentiment ==
                 IF polarity > PolarityThreshold THEN "positive"
                 ELSE IF polarity < -PolarityThreshold THEN "negative"
                 ELSE "neutral"
             confidence ==
                 IF polarity > PolarityThreshold THEN Min(Scale, polarity)
                 ELSE IF polarity < -PolarityThreshold THEN Min(Scale, Abs(polarity))
                 ELSE Scale - Abs(polarity)
             pos_score == Max(0, polarity)
             neg_score == Max(0, -polarity)
             neu_score == Scale - Abs(polarity)
             total == pos_score + neg_score + neu_score
             norm(x) == IF total > 0 THEN DivFloat(x, total) ELSE x
         IN  [raised |-> FALSE, sentiment |-> sentiment, confidence |-> confidence,
              scores |-> [k \in SentimentLabels |->
                            CASE k = "positive" -> norm(pos_score)
                              [] k = "negative" -> norm(neg_score)
                              [] k = "neutral" -> norm(neu_score)]]

\* the engine the call reaches: none for a blank text, an unknown method,
\* or an analyzer that is not the method's engine
InvokedEngine(self, text) ==
    IF ~Truthy(text) \/ ~Truthy(Strip(text)) THEN "none"
    ELSE CASE self.method = "transformers" /\ self.analyzer = "pipeline" -> "pipeline"
           [] self.method = "vader" /\ self.analyzer = "vader" -> "vader"
           [] self.method = "textblob" -> "textblob"
           [] OTHER -> "none"

\* analyze_sentiment whose guard is "if not text:" alone
analyze_sentiment_no_strip(self, text, out, dt) ==
    IF ~Truthy(text)
    THEN [sentiment |-> "neutral", confidence |-> 0, scores |-> NeutralScores,
          processing_time |-> 0, error |-> FALSE]
    ELSE LET result ==
                 CASE self.method = "transformers" ->
                          _analyze_with_transformers(self.analyzer, out)
                   [] self.method = "vader" ->
                          _analyze_with_vader(self.analyzer, out)
                   [] self.method = "textblob" ->
                          _analyze_with_textblob(out)
                   [] OTHER -> Raised
         IN  IF result.raised
             THEN [sentiment |-> "neutral", confidence |-> 0,
                   scores |-> NeutralScores, processing_time |-> dt,
                   error |-> TRUE]
             ELSE [sentiment |-> result.sentiment,
                   confidence |-> result.confidence,
                   scores |-> result.scores, processing_time |-> dt,
                   error |-> FALSE]

\* analyze_sentiment(text): out is what the invoked engine hands back, dt the
\* time.time() difference.
analyze_sentiment(self, text, out, dt) ==
    IF ~Truthy(text) \/ ~Truthy(Strip(text))
    THEN [sentiment |-> "neutral", confidence |-> 0, scores |-> NeutralScores,
          processing_time |-> 0, error |-> FALSE]
    ELSE LET result ==
                 CASE self.method = "transformers" ->
                          _analyze_with_transformers(self.analyzer, out)
                   [] self.method = "vader" ->
                          _analyze_with_vader(self.analyzer, out)
                   [] self.method = "textblob" ->
                          _analyze_with_textblob(out)
                   \* raise ValueError("Unknown sentiment analysis method")
                   [] OTHER -> Raised
         IN  IF result.raised
             \* except Exception: "Fallback to simple analysis"
             THEN [sentiment |-> "neutral", confidence |-> 0,
                   scores |-> NeutralScores, processing_time |-> dt,
                   error |-> TRUE]
             ELSE [sentiment |-> result.sentiment,
                   confidence |-> result.confidence,
                   scores |-> result.scores, processing_time |-> dt,
                   error |-> FALSE]

-----------------------------------------------------------------------------
(* speech_to_text.py *)

\* SpeechToTextService(): _load_model re-raises what whisper.load_model raises
SpeechToTextService(whisperOk) ==
    [raised |-> ~whisperOk, model |-> IF whisperOk THEN "whisper" ELSE "None"]

\* a segment of result["segments"]: with or without "avg_logprob"
AvgLogprobs == {-Scale - 12, -24, 12}
Segments ==
    {[has |-> FALSE, avg_logprob |-> 0]} \cup
    {[has |-> TRUE, avg_logprob |-> l] : l \in AvgLogprobs}
\* the segment lists of the transcriptions a request may get: none, and
\* three segments of which one has no log-probability
SegmentSeqs ==
    {<<>>,
     <<[has |-> TRUE, avg_logprob |-> -24], [has |-> FALSE, avg_logprob |-> 0],
       [has |-> TRUE, avg_logprob |-> -Scale - 12]>>}

RECURSIVE SumSeq(_)
SumSeq(q) == IF q = <<>> THEN 0 ELSE Head(q) + SumSeq(Tail(q))

RECURSIVE Confidences_of(_)
\* the list `confidences` built by the loop over the segments
Confidences_of(segments) ==
    IF segments = <<>> THEN <<>>
    ELSE LET seg == Head(segments)
             rest == Confidences_of(Tail(segments))
         IN  IF seg.has
             THEN <<Min(Scale, Max(0, seg.avg_logprob + Scale))>> \o rest
             ELSE rest

\* _calculate_confidence that divides by the number of segments
_calculate_confidence_over_segments(segments) ==
    IF segments = <<>> THEN Scale \div 2
    ELSE LET confidences == Confidences_of(segments)
         IN  IF confidences # <<>>
             THEN DivInt(SumSeq(confidences), Len(segments))
             ELSE Scale \div 2

_calculate_confidence(segments) ==
    IF segments = <<>> THEN Scale \div 2
    ELSE LET confidences == Confidences_of(segments)
         IN  IF confidences # <<>>
             THEN DivInt(SumSeq(confidences), Len(confidences))
             ELSE Scale \div 2

\* self.model.transcribe(path, ...): {"text", "segments"}, or an exception
WhisperOutputs ==
    {[raises |-> TRUE, text |-> <<>>, segments |-> <<>>]} \cup
    {[raises |-> FALSE, text |-> t, segments |-> q] : t \in Texts, q \in SegmentSeqs}

\* every segment list of up to MaxSegs segments
SegmentLists == UNION {[1..n -> Segments] : n \in 0..MaxSegs}
\* self.model.transcribe(path, ...) over those segment lists
TranscriptionOutputs ==
    {[raises |-> TRUE, text |-> <<>>, segments |-> <<>>]} \cup
    {[raises |-> FALSE, text |-> t, segments |-> q] :
        t \in Texts, q \in SegmentLists}

\* transcribe_audio(audio_file_path): exists is os.path.exists(path), out
\* what the model hands back, dt the time.time() difference
transcribe_audio(exists, out, dt) ==
    IF ~exists THEN Raised
    ELSE IF out.raises THEN Raised
    ELSE [raised |-> FALSE, text |-> Strip(out.text),
          confidence |-> _calculate_confidence(out.segments),
          processing_time |-> dt]

-----------------------------------------------------------------------------
(* main.py *)

ReqIds == 1..NReq
FileNames == {"a.wav", "b.wav"}

\* os.path.join(UPLOAD_DIR, f"temp_{audio_file.filename}")
TempPath(filename) == <<"uploads", "temp_", filename>>
\* os.path.join(UPLOAD_DIR, audio_file.filename)
UploadPath(filename) == <<"uploads", "", filename>>
Paths == {TempPath(f) : f \in FileNames} \cup {UploadPath(f) : f \in FileNames}

Endpoints == {"process", "transcribe"}

NoResp ==
    [status |-> 0, transcript |-> <<>>, transcript_confidence |-> 0,
     sentiment |-> "", sentiment_confidence |-> 0,
     sentiment_scores |-> NeutralScores, processing_time |-> 0]
\* raise HTTPException(status_code=500, ...)
Http500 == [NoResp EXCEPT !.status = 500]

\* a request: pc is where its coroutine stands, stale whether the file it has
\* open has lost its name; the fields after resp are history
NoReq ==
    [pc |-> "idle", ep |-> "", filename |-> "", stale |-> FALSE, resp |-> NoResp,
     readBytes |-> 0, sttRaised |-> FALSE, sentRaised |-> FALSE,
     tdur |-> 0, sdur |-> 0, sentCalled |-> FALSE, sentText |-> <<>>,
     rejected |-> FALSE]

\* AudioProcessResponse(...) whose processing_time is the transcription's alone
AudioProcessResponse_transcription_time(t, sr) ==
    [status |-> 200, transcript |-> t.text,
     transcript_confidence |-> t.confidence,
     sentiment |-> sr.sentiment,
     sentiment_confidence |-> sr.confidence,
     sentiment_scores |-> [k \in SentimentLabels |-> sr.scores[k]],
     processing_time |-> t.processing_time]

\* AudioProcessResponse(...) of process_audio_complete: SentimentScores keeps
\* its three fields
AudioProcessResponse(t, sr) ==
    [status |-> 200, transcript |-> t.text,
     transcript_confidence |-> t.confidence,
     sentiment |-> sr.sentiment,
     sentiment_confidence |-> sr.confidence,
     sentiment_scores |-> [k \in SentimentLabels |-> sr.scores[k]],
     processing_time |-> t.processing_time + sr.processing_time]

\* the sentiment call handed something else than the transcript's text
SentimentArgument_whole_result(t) == <<"a">> \o t.text

\* what process_audio_complete hands to analyze_sentiment:
\* transcript_result["text"]
SentimentArgument(t) == t.text

\* the dict transcribe_audio's endpoint returns
TranscribeResponse(t) ==
    [NoResp EXCEPT !.status = 200, !.transcript = t.text,
                   !.transcript_confidence = t.confidence,
                   !.processing_time = t.processing_time]

\* a path with no file
NoFile == [exists |-> FALSE, bytes |-> 0]

\* a finished request is handed to the client before the next one finishes
NoneDone == \A q \in ReqIds : req[q].pc # "done"

\* what the services hand to a request of the application: the raw texts
\* (blank, padded), and for each engine an exception and one of its outputs
RequestTexts == {<<" ">>, <<"a", " ">>}
RequestWhisperOutputs ==
    {o \in WhisperOutputs : o.raises \/ o.text \in RequestTexts}
RequestEngineOutputs(engine) ==
    {o \in EngineOutputs(engine) :
        \/ o.raises
        \/ engine = "pipeline" /\ o.label \in {"POSITIVE", "LABEL_3"} /\ o.score = 60
        \/ engine = "vader" /\ o.pos = 42 * Grain /\ o.compound \in {0, 36 * Grain}
        \/ engine = "textblob" /\ o.polarity = Scale
        \/ engine = "none"}

\* the module body: stt_service = SpeechToTextService();
\* sentiment_service = SentimentAnalysisService()
Import(whisperOk, trOk, vdOk) ==
    /\ app.state = "init"
    /\ LET stt == SpeechToTextService(whisperOk)
           sent == SentimentAnalysisService("transformers", trOk, vdOk)
       IN  app' = IF stt.raised \/ sent.raised
                  THEN [app EXCEPT !.state = "crashed"]
                  ELSE [state |-> "serving", method |-> sent.method,
                        analyzer |-> sent.analyzer]
    /\ UNCHANGED <<fs, req>>
    /\ UNCHANGED <<svcVars, lamVars, sttVars>>

\* os.remove(path): the name goes; a request whose open file it was keeps
\* writing to a file no name reaches (stale), whatever is created there later
Unlinked(reqs, path) ==
    [q \in ReqIds |->
        IF reqs[q].pc = "reading" /\ TempPath(reqs[q].filename) = path
        THEN [reqs[q] EXCEPT !.stale = TRUE]
        ELSE reqs[q]]

\* process_audio_complete / transcribe_audio up to `await audio_file.read()`:
\* open(file_path, "wb") creates the file or truncates the one that is there
Open(r, ep, fn, openOk) ==
    /\ app.state = "serving"
    /\ req[r].pc = "idle"
    /\ LET path == TempPath(fn)
       IN  IF openOk
           THEN /\ fs' = [fs EXCEPT ![path] = [exists |-> TRUE, bytes |-> 0]]
                /\ req' = [req EXCEPT ![r] =
                              [NoReq EXCEPT !.pc = "reading", !.ep = ep,
                                            !.filename = fn]]
           \* except Exception: if os.path.exists(file_path): os.remove(file_path)
           ELSE /\ NoneDone
                /\ fs' = [fs EXCEPT ![path] = NoFile]
                /\ req' = [Unlinked(req, path) EXCEPT ![r] =
                              [NoReq EXCEPT !.pc = "done", !.ep = ep,
                                            !.resp = Http500]]
    /\ UNCHANGED app
    /\ UNCHANGED <<svcVars, lamVars, sttVars>>

\* the rest of the handler, from the return of `await audio_file.read()`: the
\* awaited service coroutines never suspend, so it runs in one piece
Resume(r, readOk, writeOk, tdt, sdt) ==
    /\ req[r].pc = "reading"
    /\ NoneDone
    /\ LET me == req[r]
           path == TempPath(me.filename)
           \* buffer.write(content), flushed when the with block closes
           written == IF me.stale THEN fs[path]
                      ELSE [fs[path] EXCEPT !.bytes = r]
           \* every way out removes the file when it is there
           finish(rec, response) ==
               /\ fs' = [fs EXCEPT ![path] = NoFile]
               /\ req' = [Unlinked(req, path) EXCEPT ![r] =
                             [rec EXCEPT !.pc = "done", !.filename = "",
                                         !.stale = FALSE, !.resp = response]]
       IN  IF ~readOk \/ ~writeOk
           THEN finish(me, Http500)
           ELSE \E wout \in RequestWhisperOutputs :
                   LET t == transcribe_audio(written.exists, wout, tdt)
                       seen == written.bytes
                   IN  IF t.raised
                       THEN finish([me EXCEPT !.sttRaised = TRUE, !.readBytes = seen],
                                   Http500)
                       ELSE IF me.ep = "transcribe"
                       THEN finish([me EXCEPT !.readBytes = seen, !.tdur = tdt],
                                   TranscribeResponse(t))
                       ELSE \E sout \in RequestEngineOutputs(
                                            InvokedEngine(app, SentimentArgument(t))) :
                               LET text == SentimentArgument(t)
                                   sr == analyze_sentiment(app, text, sout, sdt)
                               IN  finish([me EXCEPT !.readBytes = seen,
                                                     !.sentCalled = TRUE,
                                                     !.sentText = text,
                                                     !.sentRaised = sr.error,
                                                     !.tdur = tdt,
                                                     !.sdur = sr.processing_time],
                                          AudioProcessResponse(t, sr))
    /\ UNCHANGED app
    /\ UNCHANGED <<svcVars, lamVars, sttVars>>

\* the response has gone to the client
Deliver(r) ==
    /\ req[r].pc = "done"
    /\ req' = [req EXCEPT ![r] = NoReq]
    /\ UNCHANGED <<app, fs>>
    /\ UNCHANGED <<svcVars, lamVars, sttVars>>

\* raise HTTPException(status_code=400, ...); HTTPException is a subclass of
\* Exception, as the other exceptions of the endpoints are
HTTPException400 == [kind |-> "HTTPException", status |-> 400]

\* except Exception as e: raise HTTPException(status_code=500, ...)
ExceptException(exc) == Http500

\* Content-Type headers of an upload: an audio type, another type, none
ContentTypes == {"audio/wav", "text/plain", "None"}

\* upload_audio up to `await audio_file.read()`
UploadOpen(r, fn, ctype, openOk) ==
    /\ app.state = "serving"
    /\ req[r].pc = "idle"
    /\ LET path == UploadPath(fn)
           fail(exc, rejected) ==
               /\ NoneDone
               /\ req' = [req EXCEPT ![r] =
                             [NoReq EXCEPT !.pc = "done", !.ep = "upload",
                                           !.rejected = rejected,
                                           !.resp = ExceptException(exc)]]
               /\ fs' = fs
       IN  \* None.startswith
           IF ctype = "None"
           THEN fail([kind |-> "AttributeError", status |-> 0], FALSE)
           \* raise HTTPException(status_code=400, ...)
           ELSE IF ctype # "audio/wav" THEN fail(HTTPException400, TRUE)
           ELSE IF ~openOk THEN fail([kind |-> "OSError", status |-> 0], FALSE)
           ELSE /\ fs' = [fs EXCEPT ![path] = [exists |-> TRUE, bytes |-> 0]]
                /\ req' = [req EXCEPT ![r] =
                              [NoReq EXCEPT !.pc = "uploading", !.ep = "upload",
                                            !.filename = fn]]
    /\ UNCHANGED app
    /\ UNCHANGED <<svcVars, lamVars, sttVars>>

\* the rest of upload_audio: the file stays in the upload directory
UploadResume(r, readOk, writeOk) ==
    /\ req[r].pc = "uploading"
    /\ NoneDone
    /\ LET me == req[r]
           path == UploadPath(me.filename)
       IN  IF readOk /\ writeOk
           THEN /\ fs' = [fs EXCEPT ![path] = [exists |-> TRUE, bytes |-> r]]
                /\ req' = [req EXCEPT ![r] =
                              [me EXCEPT !.pc = "done", !.filename = "",
                                         !.resp = [NoResp EXCEPT !.status = 200]]]
           ELSE /\ fs' = fs
                /\ req' = [req EXCEPT ![r] =
                              [me EXCEPT !.pc = "done", !.filename = "",
                                         !.resp = ExceptException(
                                             [kind |-> "OSError", status |-> 0])]]
    /\ UNCHANGED app
    /\ UNCHANGED <<svcVars, lamVars, sttVars>>

\* analyze_sentiment(text: dict) of main.py: hasText says whether the body
\* has a "text" field, text is its value
AnalyzeText(r, hasText, text, sdt) ==
    /\ app.state = "serving"
    /\ req[r].pc = "idle"
    /\ NoneDone
    /\ IF ~hasText
       \* raise HTTPException(status_code=400, ...) inside the try
       THEN req' = [req EXCEPT ![r] =
                       [NoReq EXCEPT !.pc = "done", !.ep = "analyze",
                                     !.rejected = TRUE,
                                     !.resp = ExceptException(HTTPException400)]]
       ELSE \E sout \in RequestEngineOutputs(InvokedEngine(app, text)) :
               LET sr == analyze_sentiment(app, text, sout, sdt)
               IN  req' = [req EXCEPT ![r] =
                              [NoReq EXCEPT
                                  !.pc = "done", !.ep = "analyze",
                                  !.sentCalled = TRUE, !.sentText = text,
                                  !.sentRaised = sr.error,
                                  !.sdur = sr.processing_time,
                                  \* return result
                                  !.resp = [NoResp EXCEPT
                                      !.status = 200,
                                      !.sentiment = sr.sentiment,
                                      !.sentiment_confidence = sr.confidence,
                                      !.sentiment_scores = sr.scores,
                                      !.processing_time = sr.processing_time]]]
    /\ UNCHANGED <<app, fs>>
    /\ UNCHANGED <<svcVars, lamVars, sttVars>>

MainNext ==
    \/ \E whisperOk \in BOOLEAN, trOk \in BOOLEAN, vdOk \in BOOLEAN :
          Import(whisperOk, trOk, vdOk)
    \/ \E r \in ReqIds, ep \in Endpoints, fn \in FileNames, openOk \in BOOLEAN :
          Open(r, ep, fn, openOk)
    \/ \E r \in ReqIds, readOk \in BOOLEAN, writeOk \in BOOLEAN,
          tdt \in Durations, sdt \in Durations :
          Resume(r, readOk, writeOk, tdt, sdt)
    \/ \E r \in ReqIds : Deliver(r)

\* upload_audio and analyze_sentiment: they touch no path and no object that
\* process_audio_complete and transcribe_audio write, and run on their own
UploadNext ==
    \/ \E whisperOk \in BOOLEAN, trOk \in BOOLEAN, vdOk \in BOOLEAN :
          Import(whisperOk, trOk, vdOk)
    \/ \E r \in ReqIds, fn \in FileNames, ctype \in ContentTypes, openOk \in BOOLEAN :
          UploadOpen(r, fn, ctype, openOk)
    \/ \E r \in ReqIds, readOk \in BOOLEAN, writeOk \in BOOLEAN :
          UploadResume(r, readOk, writeOk)
    \/ \E r \in ReqIds, hasText \in BOOLEAN, text \in RequestTexts, sdt \in Durations :
          AnalyzeText(r, hasText, text, sdt)
    \/ \E r \in ReqIds : Deliver(r)


-----------------------------------------------------------------------------
(* lambda_handler.py *)

\* put_metric without its try/except: the failure of the sink reaches the caller
put_metric_propagates(metric_name, sinkRaises) ==
    [raised |-> sinkRaises, sent |-> ~sinkRaises]

\* CloudWatchMetrics.put_metric: sinkRaises says whether
\* cloudwatch.put_metric_data raises; the except clause logs and returns
put_metric(metric_name, sinkRaises) ==
    [raised |-> FALSE, sent |-> ~sinkRaises]

\* the put_metric calls of `names`, the sink raising for those in `failing`:
\* whether one of them raises to its caller
EmitRaises(names, failing) ==
    \E n \in names : put_metric(n, n \in failing).raised

\* the three module globals before the first get_services()
NoGlobals ==
    [stt |-> "None",
     sentiment |-> [state |-> "None", method |-> "", analyzer |-> "None"],
     audio |-> "None"]

\* get_services(): tried is the set of engine constructors called
get_services(gl, whisperOk, trOk, vdOk, failing) ==
    IF gl.stt # "None"
    THEN [raised |-> FALSE, g |-> gl, tried |-> {}]
    ELSE LET stt == SpeechToTextService(whisperOk)
             sent == SentimentAnalysisService("transformers", trOk, vdOk)
             g1 == [gl EXCEPT !.stt = stt.model]
             g3 == [g1 EXCEPT !.sentiment = [state |-> "ready",
                                             method |-> sent.method,
                                             analyzer |-> sent.analyzer],
                              !.audio = "AudioProcessor"]
         IN  IF stt.raised
             THEN [raised |-> TRUE, g |-> gl, tried |-> {"whisper"}]
             ELSE IF sent.raised
             THEN [raised |-> TRUE, g |-> g1, tried |-> {"whisper"} \cup sent.tried]
             ELSE [raised |-> EmitRaises({"ServiceInitializationTime"}, failing),
                   g |-> g3, tried |-> {"whisper"} \cup sent.tried]

\* the parameters the service methods of src/ declare, and the keywords the
\* handler passes: a keyword the method does not declare is a TypeError
TranscribeParams == {"audio_file_path"}
AnalyzeParams == {"text"}
TranscribeKeywords == {"language_code", "auto_detect"}
AnalyzeKeywords == {"language"}
Binds(keywords, params) == keywords \subseteq params

LResp(status) == [status |-> status, unhandled |-> FALSE, processing_time |-> 0]
\* an exception that leaves the endpoint: the middleware re-raises it
LUnhandled == [status |-> 500, unhandled |-> TRUE, processing_time |-> 0]

\* a request: tmp says whether its NamedTemporaryFile exists; the fields after
\* resp are history
NoLReq ==
    [pc |-> "idle", ep |-> "", tmp |-> FALSE, resp |-> LResp(0),
     sinkFailed |-> FALSE, svcRaised |-> FALSE, stage |-> ""]

LCount(h, tried) ==
    [whisper |-> h.whisper + (IF "whisper" \in tried THEN 1 ELSE 0),
     pipeline |-> h.pipeline + (IF "pipeline" \in tried THEN 1 ELSE 0),
     vader |-> h.vader + (IF "vader" \in tried THEN 1 ELSE 0)]

LNoneDone == \A q \in ReqIds : lreq[q].pc # "done"

\* add_cloudwatch_metrics around an endpoint's outcome
StartMetrics == {"APIRequests"}
EndMetrics == {"ResponseTime", "APIErrors", "APISuccess", "APIExceptions"}
Middleware(resp, failing) ==
    IF resp.unhandled \/ EmitRaises({"APIRequests"}, failing) THEN LUnhandled
    ELSE IF EmitRaises({"ResponseTime"}, failing) THEN LUnhandled
    ELSE IF resp.status >= 400
    THEN (IF EmitRaises({"APIErrors"}, failing) THEN LUnhandled ELSE resp)
    ELSE (IF EmitRaises({"APISuccess"}, failing) THEN LUnhandled ELSE resp)

\* the except clause of process_audio_complete
ErrorMetrics == {"AudioProcessingError", "ErrorProcessingTime"}
ProcessExcept(failing) ==
    IF EmitRaises(ErrorMetrics, failing) THEN LUnhandled ELSE LResp(500)

\* the sets of metric names the sink may fail for during one handler part:
\* none, any one, or all of the names the part may put
SinkFailures(names) == {{}, names} \cup {{n} : n \in names}

\* the metric names each part of a handler may put
ProcessStartMetrics ==
    StartMetrics \cup {"ServiceInitializationTime"} \cup ErrorMetrics \cup EndMetrics
ProcessResumeMetrics ==
    {"AudioFileSize", "AudioProcessingStarted", "TranscriptionTime",
     "TranscriptionSuccess", "SentimentAnalysisTime", "SentimentDetected",
     "TotalProcessingTime", "AudioProcessingSuccess"}
        \cup ErrorMetrics \cup EndMetrics
HealthMetrics ==
    StartMetrics \cup {"ServiceInitializationTime", "HealthCheckDetailed",
                       "HealthCheckFailed"} \cup EndMetrics
RootMetrics == StartMetrics \cup {"HealthCheck"} \cup EndMetrics

\* process_audio_complete up to `await audio_file.read()`
LStart(r, whisperOk, trOk, vdOk, failing) ==
    /\ lreq[r].pc = "idle"
    /\ lhist.whisper < MaxLoads
    /\ LET s == get_services(g, whisperOk, trOk, vdOk, failing)
       IN  /\ g' = s.g
           /\ lhist' = LCount(lhist, s.tried)
           /\ IF s.raised
              THEN /\ LNoneDone
                   /\ lreq' = [lreq EXCEPT ![r] =
                                  [NoLReq EXCEPT !.pc = "done", !.ep = "process",
                                                 !.svcRaised = TRUE,
                                                 !.stage = "get_services",
                                                 !.sinkFailed = failing # {},
                                                 !.resp = Middleware(ProcessExcept(failing),
                                                                     failing)]]
              ELSE lreq' = [lreq EXCEPT ![r] =
                               [NoLReq EXCEPT !.pc = "reading", !.ep = "process",
                                              !.sinkFailed = failing # {}]]
    /\ UNCHANGED <<svcVars, mainVars, sttVars>>

\* the rest of process_audio_complete
LResume(r, readOk, createOk, writeOk, unlinkOk, failing) ==
    /\ lreq[r].pc = "reading"
    /\ LNoneDone
    /\ LET me == [lreq[r] EXCEPT !.sinkFailed = @ \/ failing # {}]
           done(stage, tmp, resp) ==
               lreq' = [lreq EXCEPT ![r] =
                           [me EXCEPT !.pc = "done", !.stage = stage, !.tmp = tmp,
                                      !.resp = Middleware(resp, failing)]]
           except(stage, tmp) == done(stage, tmp, ProcessExcept(failing))
       IN  IF ~readOk THEN except("read", FALSE)
           ELSE IF EmitRaises({"AudioFileSize", "AudioProcessingStarted"}, failing)
           THEN except("metrics", FALSE)
           \* tempfile.NamedTemporaryFile(delete=False, suffix=".wav")
           ELSE IF ~createOk THEN except("create", FALSE)
           \* temp_file.write(content) raises: the with block closes the file,
           \* and the try whose finally unlinks it has not been entered
           ELSE IF ~writeOk THEN except("write", TRUE)
           \* from here on the finally clause unlinks the file, and passes
           \* over a failure of os.unlink
           ELSE IF ~Binds(TranscribeKeywords, TranscribeParams)
           THEN except("transcription", ~unlinkOk)
           ELSE \E wout \in RequestWhisperOutputs, tdt \in Durations :
                LET t == transcribe_audio(TRUE, wout, tdt)
                IN  IF t.raised THEN except("transcription", ~unlinkOk)
                    ELSE IF EmitRaises({"TranscriptionTime", "TranscriptionSuccess"},
                                       failing)
                    THEN except("metrics", ~unlinkOk)
                    ELSE IF g.sentiment.state = "None"
                            \/ ~Binds(AnalyzeKeywords, AnalyzeParams)
                    THEN except("sentiment", ~unlinkOk)
                    ELSE IF EmitRaises({"SentimentAnalysisTime", "SentimentDetected",
                                        "TotalProcessingTime",
                                        "AudioProcessingSuccess"}, failing)
                    THEN except("metrics", ~unlinkOk)
                    \* total_processing_time = time.time() - start_time
                    ELSE \E sdt \in Durations, rest \in Durations :
                            done("", ~unlinkOk,
                                 [LResp(200) EXCEPT
                                     !.processing_time = tdt + sdt + rest])
    /\ UNCHANGED <<g, lhist>>
    /\ UNCHANGED <<svcVars, mainVars, sttVars>>

\* health_check
LHealth(r, whisperOk, trOk, vdOk, failing) ==
    /\ lreq[r].pc = "idle"
    /\ lhist.whisper < MaxLoads
    /\ LNoneDone
    /\ LET s == get_services(g, whisperOk, trOk, vdOk, failing)
           resp == IF s.raised \/ EmitRaises({"HealthCheckDetailed"}, failing)
                   THEN (IF EmitRaises({"HealthCheckFailed"}, failing)
                         THEN LUnhandled ELSE LResp(503))
                   ELSE LResp(200)
       IN  /\ g' = s.g
           /\ lhist' = LCount(lhist, s.tried)
           /\ lreq' = [lreq EXCEPT ![r] =
                          [NoLReq EXCEPT !.pc = "done", !.ep = "health",
                                         !.svcRaised = s.raised,
                                         !.sinkFailed = failing # {},
                                         !.resp = Middleware(resp, failing)]]
    /\ UNCHANGED <<svcVars, mainVars, sttVars>>

\* root
LRoot(r, failing) ==
    /\ lreq[r].pc = "idle"
    /\ LNoneDone
    /\ LET resp == IF EmitRaises({"HealthCheck"}, failing)
                   THEN LUnhandled ELSE LResp(200)
       IN  lreq' = [lreq EXCEPT ![r] =
                       [NoLReq EXCEPT !.pc = "done", !.ep = "root",
                                      !.sinkFailed = failing # {},
                                      !.resp = Middleware(resp, failing)]]
    /\ UNCHANGED <<g, lhist>>
    /\ UNCHANGED <<svcVars, mainVars, sttVars>>

\* the response has gone to the client
LDeliver(r) ==
    /\ lreq[r].pc = "done"
    /\ lreq' = [lreq EXCEPT ![r] = NoLReq]
    /\ UNCHANGED <<g, lhist>>
    /\ UNCHANGED <<svcVars, mainVars, sttVars>>

LamNext ==
    \/ \E r \in ReqIds, whisperOk \in BOOLEAN, trOk \in BOOLEAN, vdOk \in BOOLEAN,
          failing \in SinkFailures(ProcessStartMetrics) :
          LStart(r, whisperOk, trOk, vdOk, failing)
    \/ \E r \in ReqIds, readOk \in BOOLEAN, createOk \in BOOLEAN, writeOk \in BOOLEAN,
          unlinkOk \in BOOLEAN, failing \in SinkFailures(ProcessResumeMetrics) :
          LResume(r, readOk, createOk, writeOk, unlinkOk, failing)
    \/ \E r \in ReqIds, whisperOk \in BOOLEAN, trOk \in BOOLEAN, vdOk \in BOOLEAN,
          failing \in SinkFailures(HealthMetrics) :
          LHealth(r, whisperOk, trOk, vdOk, failing)
    \/ \E r \in ReqIds, failing \in SinkFailures(RootMetrics) : LRoot(r, failing)
    \/ \E r \in ReqIds : LDeliver(r)

-----------------------------------------------------------------------------
(* SpecSvc: one SentimentAnalysisService object and the calls made on it. *)

NoSvc == [state |-> "absent", method |-> "", analyzer |-> "None"]
NoCall == [op |-> "none", text |-> <<>>, engine |-> "none", out |-> NoOut,
           dt |-> 0, raised |-> FALSE]
NoRes == [sentiment |-> "", confidence |-> 0, scores |-> NeutralScores,
          processing_time |-> 0, error |-> FALSE]
NoHist == [pipeline |-> 0, vader |-> 0, changes |-> 0,
           ctor |-> [method |-> "", trOk |-> FALSE, vdOk |-> FALSE]]

Count(h, tried) ==
    [h EXCEPT !.pipeline = @ + (IF "pipeline" \in tried THEN 1 ELSE 0),
              !.vader = @ + (IF "vader" \in tried THEN 1 ELSE 0)]

\* sentiment_service = SentimentAnalysisService(m)
Construct(m, trOk, vdOk) ==
    /\ svc.state = "absent"
    /\ call.op = "none"
    /\ LET r == SentimentAnalysisService(m, trOk, vdOk)
       IN  /\ svc' = IF r.raised THEN [NoSvc EXCEPT !.state = "raised"]
                     ELSE [state |-> "ready", method |-> r.method,
                           analyzer |-> r.analyzer]
           /\ call' = [NoCall EXCEPT !.op = "init", !.raised = r.raised]
           /\ hist' = [Count(hist, r.tried) EXCEPT
                          !.ctor = [method |-> m, trOk |-> trOk, vdOk |-> vdOk]]
    /\ res' = NoRes
    /\ UNCHANGED <<mainVars, lamVars, sttVars>>

\* await sentiment_service.analyze_sentiment(text)
AnalyzeSentiment(text, dt) ==
    /\ svc.state = "ready"
    /\ call.op = "none"
    /\ \E out \in EngineOutputs(InvokedEngine(svc, text)) :
          /\ call' = [op |-> "analyze", text |-> text,
                      engine |-> InvokedEngine(svc, text), out |-> out,
                      dt |-> dt, raised |-> FALSE]
          /\ res' = analyze_sentiment(svc, text, out, dt)
    /\ UNCHANGED <<svc, hist>>
    /\ UNCHANGED <<mainVars, lamVars, sttVars>>

\* sentiment_service.change_method(m)
ChangeMethod(m, trOk, vdOk) ==
    /\ svc.state = "ready"
    /\ call.op = "none"
    /\ hist.changes < MaxChanges
    /\ LET r == change_method(svc, m, trOk, vdOk)
       IN  /\ svc' = [svc EXCEPT !.method = r.method, !.analyzer = r.analyzer]
           /\ call' = [NoCall EXCEPT !.op = "change", !.raised = r.raised]
           /\ hist' = [Count(hist, r.tried) EXCEPT !.changes = @ + 1]
    /\ res' = NoRes
    /\ UNCHANGED <<mainVars, lamVars, sttVars>>

\* the call returns (or raises) to its caller
Return ==
    /\ call.op # "none"
    /\ call' = NoCall
    /\ res' = NoRes
    /\ UNCHANGED <<svc, hist>>
    /\ UNCHANGED <<mainVars, lamVars, sttVars>>

SvcNext ==
    \/ \E m \in Methods, trOk \in BOOLEAN, vdOk \in BOOLEAN : Construct(m, trOk, vdOk)
    \/ \E text \in Texts, dt \in Durations : AnalyzeSentiment(text, dt)
    \/ \E m \in Methods, trOk \in BOOLEAN, vdOk \in BOOLEAN : ChangeMethod(m, trOk, vdOk)
    \/ Return

-----------------------------------------------------------------------------
(* SpecStt: one SpeechToTextService object and the calls made on it. *)

NoStt ==
    [state |-> "absent", op |-> "none", out |-> [raises |-> FALSE, text |-> <<>>,
                                                  segments |-> <<>>],
     result |-> [raised |-> FALSE, text |-> <<>>, confidence |-> 0,
                 processing_time |-> 0]]

\* stt_service = SpeechToTextService()
LoadModel(whisperOk) ==
    /\ sttSvc.state = "absent"
    /\ LET r == SpeechToTextService(whisperOk)
       IN  sttSvc' = [sttSvc EXCEPT !.state = IF r.raised THEN "raised" ELSE "ready"]
    /\ UNCHANGED <<svcVars, mainVars, lamVars>>

\* await stt_service.transcribe_audio(path)
TranscribeAudio(exists, out, dt) ==
    /\ sttSvc.state = "ready"
    /\ sttSvc.op = "none"
    /\ LET t == transcribe_audio(exists, out, dt)
       IN  sttSvc' = [sttSvc EXCEPT !.op = "transcribe", !.out = out,
                              !.result = IF t.raised
                                         THEN [NoStt.result EXCEPT !.raised = TRUE]
                                         ELSE t]
    /\ UNCHANGED <<svcVars, mainVars, lamVars>>

\* the call returns (or raises) to its caller
TranscribeReturn ==
    /\ sttSvc.op # "none"
    /\ sttSvc' = [NoStt EXCEPT !.state = sttSvc.state]
    /\ UNCHANGED <<svcVars, mainVars, lamVars>>

SttNext ==
    \/ \E whisperOk \in BOOLEAN : LoadModel(whisperOk)
    \/ \E exists \in BOOLEAN, out \in TranscriptionOutputs, dt \in Durations :
          TranscribeAudio(exists, out, dt)
    \/ TranscribeReturn

-----------------------------------------------------------------------------
(* The specifications: each runs one part and holds the others still. *)

\* nothing is constructed and no request has arrived
Init ==
    /\ svc = NoSvc
    /\ call = NoCall
    /\ res = NoRes
    /\ hist = NoHist
    /\ app = [state |-> "init", method |-> "", analyzer |-> "None"]
    /\ fs = [p \in Paths |-> NoFile]
    /\ req = [r \in ReqIds |-> NoReq]
    /\ g = NoGlobals
    /\ lhist = [whisper |-> 0, pipeline |-> 0, vader |-> 0]
    /\ lreq = [r \in ReqIds |-> NoLReq]
    /\ sttSvc = NoStt

\* the SentimentAnalysisService object alone
SpecSvc == Init /\ [][SvcNext]_vars

\* the main.py application: process_audio_complete and transcribe_audio
Spec == Init /\ [][MainNext]_vars

\* the main.py application: upload_audio and analyze_sentiment
SpecUpload == Init /\ [][UploadNext]_vars

\* the lambda_handler.py application
SpecLambda == Init /\ [][LamNext]_vars

\* the SpeechToTextService object alone
SpecStt == Init /\ [][SttNext]_vars

-----------------------------------------------------------------------------
(* Properties of the sentiment service (SpecSvc) *)

\* a text that is empty or made of white space only
IsBlank(t) == \A i \in 1..Len(t) : IsSpace(t[i])

\* the service was built as SentimentAnalysisService("transformers"), the
\* pipeline failed to load, the VADER analyzer loaded, and change_method has
\* not been called since
DegradedAtConstruction ==
    /\ hist.ctor = [method |-> "transformers", trOk |-> FALSE, vdOk |-> TRUE]
    /\ hist.changes = 0

\* C2: built with "transformers" while the pipeline fails to load and VADER
\* loads, the constructor returns normally, the service holds method "vader"
\* and a VADER analyzer, every later analyze_sentiment of a non-blank text
\* goes to the VADER engine and reports its scores, and each engine
\* constructor has been called once however many requests were served.
C2_FallbackAtConstruction ==
    DegradedAtConstruction =>
        /\ svc.state = "ready"
        /\ call.op = "init" => ~call.raised
        /\ svc.method = "vader"
        /\ svc.analyzer = "vader"
        /\ get_analyzer_info(svc).analyzer_loaded
        /\ hist.pipeline = 1 /\ hist.vader = 1
        /\ (call.op = "analyze" /\ ~IsBlank(call.text)) =>
              /\ call.engine = "vader"
              /\ ~call.out.raises =>
                    /\ ~res.error
                    /\ res.scores["positive"] = call.out.pos
                    /\ res.scores["negative"] = call.out.neg
                    /\ res.scores["neutral"] = call.out.neu
                    /\ res.confidence \in {call.out.pos, call.out.neg, call.out.neu}

C2_Witness ==
    /\ DegradedAtConstruction
    /\ call.op = "analyze"
    /\ call.text = <<"a">>
    /\ res.sentiment = "positive"
    /\ res.confidence = 42 * Grain

\* C3: once the backend is in its terminal failed state (no analyzer is
\* held: the load failed and the method has no fallback), every analysis of
\* a non-blank text ends in an error and none returns a sentiment result.
C3_FailedBackendAlwaysErrors ==
    (call.op = "analyze" /\ ~IsBlank(call.text) /\ svc.analyzer = "None"
        /\ svc.method # "textblob") => call.raised

\* C8: for a blank text, in every state of the service, analyze_sentiment
\* returns neutral, confidence 0.0 and scores {0, 0, 1}, and no engine is
\* invoked.
C8_BlankTextIsNeutral ==
    (call.op = "analyze" /\ IsBlank(call.text)) =>
        /\ res.sentiment = "neutral"
        /\ res.confidence = 0
        /\ res.scores = [k \in SentimentLabels |-> IF k = "neutral" THEN Scale ELSE 0]
        /\ ~res.error
        /\ call.engine = "none"

C8_Witness ==
    /\ call.op = "analyze"
    /\ call.text = <<" ", " ">>
    /\ svc.method = "transformers"
    /\ svc.analyzer = "pipeline"
    /\ res.sentiment = "neutral"

\* C9: whatever native label the pipeline returns, the transformer mapping
\* reports a sentiment among positive, negative, neutral and scores keyed by
\* exactly these three.
C9_LabelsNormalized ==
    (call.op = "analyze" /\ call.engine = "pipeline" /\ ~call.out.raises) =>
        /\ res.sentiment \in SentimentLabels
        /\ DOMAIN res.scores = SentimentLabels

\* C10: for the transformer mapping, for each chosen label among positive,
\* negative, neutral and each raw confidence c: scores[label] = c, each of the
\* two other labels gets (1 - c)/2, and the three scores sum to 1.
C10_TransformerScores ==
    (call.op = "analyze" /\ call.engine = "pipeline" /\ ~call.out.raises
        /\ res.sentiment \in SentimentLabels) =>
        /\ res.confidence = call.out.score
        /\ res.scores[res.sentiment] = call.out.score
        /\ \A o \in SentimentLabels \ {res.sentiment} :
              2 * res.scores[o] = Scale - call.out.score
        /\ res.scores["positive"] + res.scores["negative"] + res.scores["neutral"]
              = Scale

C10_Witness ==
    /\ call.op = "analyze"
    /\ call.engine = "pipeline"
    /\ call.out.label = "LABEL_0"
    /\ call.out.score = 60
    /\ res.sentiment = "negative"
    /\ res.scores["positive"] = (Scale - 60) \div 2


\* C1: a process-audio request of main.py whose sentiment backend raised
\* ends in a failure; it never gets a response carrying a sentiment label,
\* confidence and scores.
C1_StageFailureFailsRequest ==
    \A r \in ReqIds :
        (req[r].pc = "done" /\ req[r].ep = "process"
            /\ (req[r].sttRaised \/ req[r].sentRaised))
        => req[r].resp.status = 500

\* C4: when a request of lambda_handler.py that made a temporary file has
\* finished, on whatever exit path, the file no longer exists.
C4_TempFileGoneWhenFinished ==
    \A r \in ReqIds : lreq[r].pc = "done" => ~lreq[r].tmp

\* C5: concurrent requests of main.py share no mutable state: no request
\* still in flight has had its temporary file deleted by another request,
\* and a transcription that succeeded read the bytes its own request
\* uploaded.
C5_RequestsShareNothing ==
    \A r \in ReqIds :
        /\ req[r].pc = "reading" => ~req[r].stale
        /\ (req[r].pc = "done" /\ req[r].ep \in Endpoints /\ req[r].resp.status = 200)
               => req[r].readBytes = r

\* C6: over the life of the process each engine is constructed at most once,
\* a failed construction included: later requests do not attempt it again.
C6_OneConstructionAttempt ==
    /\ lhist.whisper <= 1
    /\ lhist.pipeline <= 1
    /\ lhist.vader <= 1

\* the outcome of a request when the metrics sink accepts every metric
SinkFreeStatus(rec) ==
    IF rec.ep = "root" THEN 200
    ELSE IF rec.ep = "health" THEN (IF rec.svcRaised THEN 503 ELSE 200)
    ELSE (IF rec.stage = "" THEN 200 ELSE 500)

\* C7: whatever the metrics sink raises, put_metric returns normally, and
\* the request ends as it does when the sink accepts every metric: no
\* request fails at a metric, and its status is the one the stages alone
\* determine.
C7_MetricsNeverFailRequest ==
    \A r \in ReqIds :
        lreq[r].pc = "done" =>
            /\ ~lreq[r].resp.unhandled
            /\ lreq[r].stage # "metrics"
            /\ lreq[r].resp.status = SinkFreeStatus(lreq[r])

\* a process-audio request during which the sink raised, ended by its
\* transcription stage and by nothing else
C7_Witness ==
    \E r \in ReqIds :
        /\ lreq[r].pc = "done" /\ lreq[r].ep = "process"
        /\ lreq[r].sinkFailed
        /\ lreq[r].stage = "transcription"
        /\ lreq[r].resp = LResp(500)

\* an analyze_sentiment call that reached the given engine and got an answer
Answered(engine) ==
    /\ call.op = "analyze"
    /\ call.engine = engine
    /\ ~call.out.raises

\* C11: for every VADER score tuple, a compound of at least 0.05 gives
\* positive with confidence pos, a compound of at most -0.05 gives negative
\* with confidence neg, anything strictly between gives neutral with
\* confidence neu (0.05 and -0.05 themselves being positive and negative),
\* and the reported scores are pos, neg and neu unchanged.
C11_VaderMapping ==
    Answered("vader") =>
        LET o == call.out
        IN  /\ 20 * o.compound >= Scale
                => res.sentiment = "positive" /\ res.confidence = o.pos
            /\ 20 * o.compound <= -Scale
                => res.sentiment = "negative" /\ res.confidence = o.neg
            /\ (20 * o.compound < Scale /\ 20 * o.compound > -Scale)
                => res.sentiment = "neutral" /\ res.confidence = o.neu
            /\ res.scores = [positive |-> o.pos, negative |-> o.neg,
                             neutral |-> o.neu]
            /\ ~res.error

\* a compound of exactly 0.05 was answered positive with confidence pos
C11_Witness ==
    /\ Answered("vader")
    /\ 20 * call.out.compound = Scale
    /\ res.sentiment = "positive"
    /\ res.confidence = call.out.pos

\* C12: for every TextBlob polarity, only a polarity above 0.1 gives
\* positive and only one below -0.1 gives negative, 0.1 and -0.1 themselves
\* giving neutral, and the three normalized scores sum to 1.0 whenever the
\* unnormalized sum is positive.
C12_TextBlobMapping ==
    Answered("textblob") =>
        LET p == call.out.polarity
            unnormalized == Max(0, p) + Max(0, -p) + (Scale - Abs(p))
        IN  /\ res.sentiment = "positive" <=> 10 * p > Scale
            /\ res.sentiment = "negative" <=> 10 * p < -Scale
            /\ res.sentiment = "neutral" <=> (10 * p <= Scale /\ 10 * p >= -Scale)
            /\ unnormalized > 0
                => res.scores["positive"] + res.scores["negative"]
                       + res.scores["neutral"] = Scale
            /\ ~res.error

\* a polarity of exactly 0.1 was answered neutral, the scores summing to 1.0
C12_Witness ==
    /\ Answered("textblob")
    /\ 10 * call.out.polarity = Scale
    /\ res.sentiment = "neutral"
    /\ res.scores["positive"] + res.scores["negative"] + res.scores["neutral"] = Scale

\* min(1.0, max(0.0, x)) as the specification words it
Clamp01(x) == IF x < 0 THEN 0 ELSE IF x > Scale THEN Scale ELSE x

\* C13: the reported transcription confidence is the mean of the per-segment
\* confidences clamp(avg_logprob + 1.0, 0.0, 1.0) of the segments that
\* carry a log-probability when there is one, exactly 0.5 otherwise, and
\* always lies in [0, 1].
C13_ConfidenceIsMean ==
    (sttSvc.op = "transcribe" /\ ~sttSvc.result.raised) =>
        LET carrying == SelectSeq(sttSvc.out.segments, LAMBDA seg : seg.has)
            n == Len(carrying)
            per_segment == [i \in 1..n |-> Clamp01(carrying[i].avg_logprob + Scale)]
        IN  /\ n > 0 => sttSvc.result.confidence * n = SumSeq(per_segment)
            /\ n = 0 => 2 * sttSvc.result.confidence = Scale
            /\ sttSvc.result.confidence >= 0
            /\ sttSvc.result.confidence <= Scale

\* a transcription of three segments, two of them carrying a
\* log-probability and one of these clamped, answered with their mean
C13_Witness ==
    /\ sttSvc.op = "transcribe" /\ ~sttSvc.result.raised
    /\ Len(sttSvc.out.segments) = 3
    /\ Len(SelectSeq(sttSvc.out.segments, LAMBDA seg : seg.has)) = 2
    /\ \E i \in 1..3 : sttSvc.out.segments[i].has /\ sttSvc.out.segments[i].avg_logprob > 0
    /\ \E i \in 1..3 : sttSvc.out.segments[i].has /\ sttSvc.out.segments[i].avg_logprob = -24
    /\ 2 * sttSvc.result.confidence = (Scale - 24) + Scale

\* a process-audio request of main.py that was answered with a result
Succeeded(r) ==
    /\ req[r].pc = "done"
    /\ req[r].ep = "process"
    /\ req[r].resp.status = 200

\* C14: the processing time in the response of a successful process-audio
\* request is the duration of its transcription stage plus the duration of
\* its sentiment stage.
C14_TotalIsSumOfStages ==
    \A r \in ReqIds :
        Succeeded(r) => req[r].resp.processing_time = req[r].tdur + req[r].sdur

\* a successful request whose two stages each took a tick
C14_Witness ==
    \E r \in ReqIds :
        /\ Succeeded(r)
        /\ req[r].tdur > 0
        /\ req[r].sdur > 0
        /\ req[r].resp.processing_time = req[r].tdur + req[r].sdur

\* C15: within a process-audio request the sentiment analysis is called
\* only once the transcription has returned, with that transcription's
\* text; a request whose transcription failed never calls it.
C15_SentimentAfterTranscription ==
    \A r \in ReqIds :
        (req[r].pc = "done" /\ req[r].ep = "process") =>
            /\ req[r].sentCalled =>
                   /\ ~req[r].sttRaised
                   /\ req[r].resp.status = 200
                   /\ req[r].sentText = req[r].resp.transcript
            /\ req[r].sttRaised => ~req[r].sentCalled

\* a request whose sentiment call got the non-blank text of its transcript
C15_Witness ==
    \E r \in ReqIds :
        /\ Succeeded(r)
        /\ req[r].sentCalled
        /\ req[r].sentText = <<"a">>
        /\ req[r].resp.transcript = <<"a">>

\* the engine each method analyses with
EngineOf(method) ==
    CASE method = "transformers" -> "pipeline"
      [] method = "vader" -> "vader"
      [] method = "textblob" -> "textblob"
      [] OTHER -> "none"

\* C16: after construction and after any change_method calls, whichever
\* loads failed, the method is one of transformers, vader and textblob and
\* the analyzer held is that method's engine, so get_analyzer_info never
\* reports a loaded analyzer for a method whose engine is not the one held.
C16_MethodMatchesAnalyzer ==
    svc.state = "ready" =>
        /\ svc.method \in KnownMethods
        /\ svc.analyzer = EngineOf(svc.method)
        /\ get_analyzer_info(svc).analyzer_loaded
               => svc.analyzer = EngineOf(get_analyzer_info(svc).method)

\* C17: the three process-wide handles are all None or all set, whichever
\* engine constructions failed, so get_services never returns a None
\* service and /health never answers healthy while a service is missing.
C17_ServicesAllOrNothing ==
    /\ (g.stt = "None") = (g.sentiment.state = "None")
    /\ (g.stt = "None") = (g.audio = "None")
    /\ \A r \in ReqIds :
          (lreq[r].pc = "done" /\ lreq[r].ep = "health"
              /\ lreq[r].resp.status = 200)
          => (g.stt # "None" /\ g.sentiment.state # "None" /\ g.audio # "None")

\* C18: a client-error rejection reaches the client with its own status: an
\* analyze-sentiment request without a "text" field and an upload-audio
\* request whose content type is not audio are answered 400, never 500.
C18_RejectionKeepsStatus ==
    \A r \in ReqIds :
        (req[r].pc = "done" /\ req[r].rejected) => req[r].resp.status = 400

=============================================================================
